---- MODULE Spec2Model ----
(***************************************************************************)
(* Live-stream embed-URL resolution of the church website.                 *)
(*                                                                         *)
(* The resolver is LiveStreamListView._build_embed_url                     *)
(* (src/livestream/views.py) and its copy inside                           *)
(* OnlineTVView.get_context_data (src/pages/views.py).  Both are pure      *)
(* string functions built on urllib.parse, so Python strings are modelled  *)
(* as sequences of one-character strings and the library routines          *)
(* (urlparse, parse_qs, urlencode) character by character.                 *)
(*                                                                         *)
(* Spec calls the resolver on its own.  SpecStatus and SpecEdit are the    *)
(* views that write LiveStream rows (update_stream_status,                 *)
(* LiveStreamUpdateView), one request at a time.  SpecViews is the pages   *)
(* that render broadcasts (LiveStreamDetailView, OnlineTVView), two        *)
(* renders interleaving.                                                   *)
(***************************************************************************)
EXTENDS Integers, Sequences, FiniteSets, TLC

VARIABLES
    b_platform_type,  \* StreamPlatform.platform_type of the broadcast
    b_platform_url,   \* StreamBroadcast.platform_url handed to the resolver
    request_host,     \* request.get_host()
    pc,             \* "ready" before the call, "done" after it
    caller,         \* which copy of the resolver ran: "livestream" / "online_tv"
    result,         \* outcome of the call: a returned string or a raised exception
    streams,        \* the LiveStream table: id -> row
    broadcasts,     \* the StreamBroadcast table: a set of rows
    now,            \* the value timezone.now() returns
    http_request,   \* the request the last serially handled view received
    http_response,  \* and the response it gave
    inflight        \* page renders in progress: slot -> request, locals, outcome

resolver_vars == <<b_platform_type, b_platform_url, request_host, pc, caller, result>>

database_vars == <<streams, broadcasts>>

http_vars == <<http_request, http_response>>

vars == <<b_platform_type, b_platform_url, request_host, pc, caller, result,
          streams, broadcasts, now, http_request, http_response, inflight>>

(***************************************************************************)
(* Python values.                                                          *)
(***************************************************************************)
\* printable ASCII, code points 32..126 in order (the grave accent, 96, as "<60>")
Ascii ==
    <<" ", "!", "\"", "#", "$", "%", "&", "'", "(", ")", "*", "+", ",", "-", ".", "/",
      "0", "1", "2", "3", "4", "5", "6", "7", "8", "9", ":", ";", "<", "=", ">", "?",
      "@", "A", "B", "C", "D", "E", "F", "G", "H", "I", "J", "K", "L", "M", "N", "O",
      "P", "Q", "R", "S", "T", "U", "V", "W", "X", "Y", "Z", "[", "\\", "]", "^", "_",
      "<60>", "a", "b", "c", "d", "e", "f", "g", "h", "i", "j", "k", "l", "m", "n", "o",
      "p", "q", "r", "s", "t", "u", "v", "w", "x", "y", "z", "{", "|", "}", "~">>

\* C0 control characters, code points 0..31, written as tokens; DEL is "<7F>"
Control ==
    <<"<00>", "<01>", "<02>", "<03>", "<04>", "<05>", "<06>", "<07>",
      "<08>", "<09>", "<0A>", "<0B>", "<0C>", "<0D>", "<0E>", "<0F>",
      "<10>", "<11>", "<12>", "<13>", "<14>", "<15>", "<16>", "<17>",
      "<18>", "<19>", "<1A>", "<1B>", "<1C>", "<1D>", "<1E>", "<1F>">>

\* U+FFFD, what bytes.decode(utf-8, replace) puts for an undecodable byte
REPLACEMENT == "<FFFD>"

Range(s) == {s[i] : i \in 1..Len(s)}

SetMin(S) == CHOOSE x \in S : \A y \in S : x <= y

SetMax(S) == CHOOSE x \in S : \A y \in S : x >= y

\* chr(n) for a byte n decoded on its own
chr(n) ==
    IF n < 32 THEN Control[n + 1]
    ELSE IF n < 127 THEN Ascii[n - 31]
    ELSE IF n = 127 THEN "<7F>"
    ELSE REPLACEMENT

\* ord(c) for an ASCII character
ord(c) ==
    IF c \in Range(Ascii) THEN 31 + (CHOOSE i \in 1..Len(Ascii) : Ascii[i] = c)
    ELSE IF c \in Range(Control) THEN (CHOOSE i \in 1..Len(Control) : Control[i] = c) - 1
    ELSE 127

ascii_uppercase == SubSeq(Ascii, 34, 59)

ascii_lowercase == SubSeq(Ascii, 66, 91)

digits == SubSeq(Ascii, 17, 26)

\* str.find(c, start), positions counted from 1; 0 when c is absent
find(s, c, start) ==
    LET hits == {i \in start..Len(s) : s[i] = c}
    IN  IF hits = {} THEN 0 ELSE SetMin(hits)

\* str.rfind(c); 0 when c is absent
rfind(s, c) ==
    LET hits == {i \in 1..Len(s) : s[i] = c}
    IN  IF hits = {} THEN 0 ELSE SetMax(hits)

\* sub in s
contains(s, sub) ==
    \E i \in 0..(Len(s) - Len(sub)) : SubSeq(s, i + 1, i + Len(sub)) = sub

\* s.split(c)
RECURSIVE split(_, _)
split(s, c) ==
    LET i == find(s, c, 1)
    IN  IF i = 0 THEN <<s>>
        ELSE <<SubSeq(s, 1, i - 1)>> \o split(SubSeq(s, i + 1, Len(s)), c)

\* s.split(c, 1)
split1(s, c) ==
    LET i == find(s, c, 1)
    IN  IF i = 0 THEN <<s>>
        ELSE <<SubSeq(s, 1, i - 1), SubSeq(s, i + 1, Len(s))>>

\* s.lstrip(chars)
lstrip(s, chars) ==
    LET keep == {i \in 1..Len(s) : s[i] \notin chars}
    IN  IF keep = {} THEN <<>> ELSE SubSeq(s, SetMin(keep), Len(s))

\* s.strip(chars)
strip(s, chars) ==
    LET keep == {i \in 1..Len(s) : s[i] \notin chars}
    IN  IF keep = {} THEN <<>> ELSE SubSeq(s, SetMin(keep), SetMax(keep))

\* s.replace(c, d) for single characters
replace(s, c, d) == [i \in 1..Len(s) |-> IF s[i] = c THEN d ELSE s[i]]

\* s.replace(c, "")
remove(s, c) == SelectSeq(s, LAMBDA x : x # c)

\* s.lower()
lower(s) ==
    [i \in 1..Len(s) |->
        IF s[i] \in Range(ascii_uppercase) THEN chr(ord(s[i]) + 32) ELSE s[i]]

\* s.isdigit()
isdigit(s) == s # <<>> /\ \A i \in 1..Len(s) : s[i] \in Range(digits)

\* sep.join(parts)
RECURSIVE join(_, _)
join(parts, sep) ==
    IF parts = <<>> THEN <<>>
    ELSE IF Len(parts) = 1 THEN parts[1]
    ELSE parts[1] \o sep \o join(Tail(parts), sep)

\* the outcome of a call: a returned value or a raised exception
Return(v) == [kind |-> "return", value |-> v, exc |-> "None"]

Raise(e) == [kind |-> "raise", value |-> <<>>, exc |-> e]

NotCalled == [kind |-> "none", value |-> <<>>, exc |-> "None"]

\* no request handled yet
NoRequest == [view |-> "none"]

NoResponse == [status_code |-> 0, data |-> <<>>]

(***************************************************************************)
(* urllib.parse, as imported by the views (CPython 3.11).                  *)
(***************************************************************************)
scheme_chars == Range(ascii_lowercase) \cup Range(ascii_uppercase) \cup Range(digits) \cup {"+", "-", "."}

_WHATWG_C0_CONTROL_OR_SPACE == Range(Control) \cup {" "}

\* '\t', '\r', '\n'
_UNSAFE_URL_BYTES_TO_REMOVE == {Control[10], Control[14], Control[11]}

_hexdig == Range(digits) \cup Range(SubSeq(Ascii, 34, 39)) \cup Range(SubSeq(Ascii, 66, 71))

_ALWAYS_SAFE == Range(ascii_lowercase) \cup Range(ascii_uppercase) \cup Range(digits) \cup {"_", ".", "-", "~"}

uses_params == {<<>>, <<"f","t","p">>, <<"h","d","l">>, <<"p","r","o","s","p","e","r","o">>, <<"h","t","t","p">>, <<"i","m","a","p">>, <<"h","t","t","p","s">>, <<"s","h","t","t","p">>, <<"r","t","s","p">>, <<"r","t","s","p","u">>, <<"s","i","p">>, <<"s","i","p","s">>, <<"m","m","s">>, <<"s","f","t","p">>, <<"t","e","l">>}

\* _splitnetloc(url, 2): <<netloc, rest>>, for a url that starts with "//"
_splitnetloc(url) ==
    LET wdelims == {find(url, c, 3) : c \in {"/", "?", "#"}} \ {0}
        delim   == IF wdelims = {} THEN Len(url) + 1 ELSE SetMin(wdelims)
    IN  <<SubSeq(url, 3, delim - 1), SubSeq(url, delim, Len(url))>>

\* _check_bracketed_host(hostname): TRUE when it returns, FALSE when it raises
\* ValueError.  The IPvFuture form is v<hex>+.<anything>+; every other
\* hostname goes to ipaddress.ip_address and must be an IPv6 address, which is
\* abstracted here to its alphabet: hex digits, ':' and '.', with two colons
\* at least.
_check_bracketed_host(hostname) ==
    IF hostname # <<>> /\ hostname[1] = "v"
    THEN LET dot == find(hostname, ".", 1)
         IN  /\ dot > 2
             /\ dot < Len(hostname)
             /\ \A i \in 2..(dot - 1) : hostname[i] \in _hexdig
    ELSE /\ Range(hostname) \subseteq _hexdig \cup {":", "."}
         /\ Cardinality({i \in 1..Len(hostname) : hostname[i] = ":"}) >= 2

\* a parse that raised ValueError
ParseError == [raised |-> TRUE, scheme |-> <<>>, netloc |-> <<>>, path |-> <<>>,
               params |-> <<>>, query |-> <<>>, fragment |-> <<>>]

\* urlsplit, last step: "if '?' in url: url, query = url.split('?', 1)", with
\* fr = <<url, fragment>>.  _checknetloc only looks at non-ASCII netlocs and
\* is a no-op on the ASCII strings modelled.
urlsplit_query(scheme, netloc, fr) ==
    LET qu == IF "?" \in Range(fr[1]) THEN split1(fr[1], "?") ELSE <<fr[1], <<>>>>
    IN  [raised |-> FALSE, scheme |-> scheme, netloc |-> netloc, path |-> qu[1],
         params |-> <<>>, query |-> qu[2], fragment |-> fr[2]]

\* netloc.partition('[')[2].partition(']')[0]
bracketed_host(netloc) ==
    LET a == SubSeq(netloc, find(netloc, "[", 1) + 1, Len(netloc))
    IN  IF find(a, "]", 1) = 0 THEN a ELSE SubSeq(a, 1, find(a, "]", 1) - 1)

\* urlsplit, the checks on the netloc and "if '#' in url: url, fragment = ..."
urlsplit_fragment(scheme, hasNetloc, netloc, url) ==
    IF hasNetloc /\ (("[" \in Range(netloc)) # ("]" \in Range(netloc)))
    THEN ParseError                                  \* "Invalid IPv6 URL"
    ELSE IF hasNetloc /\ "[" \in Range(netloc) /\ ~_check_bracketed_host(bracketed_host(netloc))
    THEN ParseError
    ELSE urlsplit_query(scheme, netloc,
                        IF "#" \in Range(url) THEN split1(url, "#") ELSE <<url, <<>>>>)

\* urlsplit, "if url[:2] == '//': netloc, url = _splitnetloc(url, 2)"
urlsplit_netloc(scheme, url) ==
    LET hasNetloc == Len(url) >= 2 /\ SubSeq(url, 1, 2) = <<"/","/">>
    IN  urlsplit_fragment(scheme, hasNetloc,
                          IF hasNetloc THEN _splitnetloc(url)[1] ELSE <<>>,
                          IF hasNetloc THEN _splitnetloc(url)[2] ELSE url)

\* urlsplit, the scheme: i = url.find(':') and the test on url[:i]
urlsplit_scheme(url, i) ==
    LET isScheme == /\ i > 1
                    /\ url[1] \in Range(ascii_lowercase) \cup Range(ascii_uppercase)
                    /\ \A k \in 1..(i - 1) : url[k] \in scheme_chars
    IN  urlsplit_netloc(IF isScheme THEN lower(SubSeq(url, 1, i - 1)) ELSE <<>>,
                        IF isScheme THEN SubSeq(url, i + 1, Len(url)) ELSE url)

\* urlsplit, after the leading C0 controls and spaces are stripped
urlsplit_clean(url) == urlsplit_scheme(url, find(url, ":", 1))

\* urlsplit(url)
urlsplit(url) ==
    urlsplit_clean(SelectSeq(lstrip(url, _WHATWG_C0_CONTROL_OR_SPACE),
                             LAMBDA c : c \notin _UNSAFE_URL_BYTES_TO_REMOVE))

\* _splitparams(url): <<url, params>>
_splitparams(url) ==
    LET i == IF "/" \in Range(url) THEN find(url, ";", rfind(url, "/")) ELSE find(url, ";", 1)
    IN  IF i = 0 THEN <<url, <<>>>>
        ELSE <<SubSeq(url, 1, i - 1), SubSeq(url, i + 1, Len(url))>>

\* urlparse, from the SplitResult s on
urlparse_params(s) ==
    IF s.raised THEN s
    ELSE IF s.scheme \in uses_params /\ ";" \in Range(s.path)
    THEN [s EXCEPT !.path = _splitparams(s.path)[1], !.params = _splitparams(s.path)[2]]
    ELSE s

\* urlparse(url)
urlparse(url) == urlparse_params(urlsplit(url))

\* value of a hexadecimal digit
hexval(c) ==
    IF c \in Range(digits) THEN ord(c) - 48
    ELSE IF c \in Range(ascii_uppercase) THEN ord(c) - 55
    ELSE ord(c) - 87

\* unquote(string): every %XX with two hex digits becomes the byte XX, decoded
\* as UTF-8 with errors='replace'.  Bytes below 0x80 decode to themselves;
\* a byte from 0x80 up is decoded on its own, to U+FFFD.
RECURSIVE unquote(_)
unquote(s) ==
    IF s = <<>> THEN <<>>
    ELSE IF s[1] = "%" /\ Len(s) >= 3 /\ s[2] \in _hexdig /\ s[3] \in _hexdig
    THEN <<chr(16 * hexval(s[2]) + hexval(s[3]))>> \o unquote(SubSeq(s, 4, Len(s)))
    ELSE <<s[1]>> \o unquote(Tail(s))

\* parse_qsl(qs, keep_blank_values): the <<name, value>> pairs in order
RECURSIVE parse_fields(_, _)
parse_fields(query_args, keep_blank_values) ==
    IF query_args = <<>> THEN <<>>
    ELSE LET name_value == Head(query_args)
             rest       == parse_fields(Tail(query_args), keep_blank_values)
             nv0        == split1(name_value, "=")
             nv         == IF Len(nv0) = 2 THEN nv0 ELSE <<nv0[1], <<>>>>
         IN  IF name_value = <<>> THEN rest
             ELSE IF Len(nv0) # 2 /\ ~keep_blank_values THEN rest
             ELSE IF Len(nv[2]) > 0 \/ keep_blank_values
             THEN <<<<unquote(replace(nv[1], "+", " ")),
                      unquote(replace(nv[2], "+", " "))>>>> \o rest
             ELSE rest

parse_qsl(qs, keep_blank_values) ==
    parse_fields(IF qs = <<>> THEN <<>> ELSE split(qs, "&"), keep_blank_values)

\* parse_qs(qs).get(name): the list of values of name, <<>> standing for None
parse_qs_get(qs, name) ==
    LET pairs == SelectSeq(parse_qsl(qs, FALSE), LAMBDA nv : nv[1] = name)
    IN  [i \in 1..Len(pairs) |-> pairs[i][2]]

hexdigit(n) == IF n < 10 THEN chr(48 + n) ELSE chr(55 + n)

\* quote_plus(string): safe characters stay, ' ' becomes '+', the rest %XX
RECURSIVE quote_plus(_)
quote_plus(s) ==
    IF s = <<>> THEN <<>>
    ELSE LET c == s[1]
             q == IF c \in _ALWAYS_SAFE THEN <<c>>
                  ELSE IF c = " " THEN <<"+">>
                  ELSE <<"%", hexdigit(ord(c) \div 16), hexdigit(ord(c) % 16)>>
         IN  q \o quote_plus(Tail(s))

\* urlencode(query) for a dict given as its <<key, value>> items in order
urlencode(query) ==
    join([i \in 1..Len(query) |-> quote_plus(query[i][1]) \o <<"=">> \o quote_plus(query[i][2])], <<"&">>)

(***************************************************************************)
(* LiveStreamListView._build_embed_url (src/livestream/views.py).          *)
(***************************************************************************)
\* mutant: the last v value is taken instead of the first
C4_Mutant_video_id(p) ==
    IF contains(p.netloc, <<"y","o","u","t","u","b","e",".","c","o","m">>)
    THEN LET v == parse_qs_get(p.query, <<"v">>)
         IN  IF v # <<>> THEN v[Len(v)] ELSE <<>>
    ELSE IF contains(p.netloc, <<"y","o","u","t","u",".","b","e">>)
    THEN strip(p.path, {"/"})
    ELSE <<>>

\* mutant: only the leading slashes of a youtu.be path are stripped
C5_Mutant_video_id(p) ==
    IF contains(p.netloc, <<"y","o","u","t","u","b","e",".","c","o","m">>)
    THEN LET v == parse_qs_get(p.query, <<"v">>)
         IN  IF v # <<>> THEN v[1] ELSE <<>>
    ELSE IF contains(p.netloc, <<"y","o","u","t","u",".","b","e">>)
    THEN lstrip(p.path, {"/"})
    ELSE <<>>

\* mutant: a youtube.com URL without a v parameter takes its id from the path
C6_Mutant_video_id(p) ==
    IF contains(p.netloc, <<"y","o","u","t","u","b","e",".","c","o","m">>)
    THEN LET v == parse_qs_get(p.query, <<"v">>)
         IN  IF v # <<>> THEN v[1] ELSE strip(p.path, {"/"})
    ELSE IF contains(p.netloc, <<"y","o","u","t","u",".","b","e">>)
    THEN strip(p.path, {"/"})
    ELSE <<>>

\* the video id the YouTube branch extracts, <<>> when there is none
LiveStreamListView_video_id(p) ==
    IF contains(p.netloc, <<"y","o","u","t","u","b","e",".","c","o","m">>)
    THEN LET v == parse_qs_get(p.query, <<"v">>)          \* qs.get('v')
         IN  IF v # <<>> THEN v[1] ELSE <<>>            \* (qs.get('v') or [''])[0]
    ELSE IF contains(p.netloc, <<"y","o","u","t","u",".","b","e">>)
    THEN strip(p.path, {"/"})
    ELSE <<>>

LiveStreamListView_youtube(url, p) ==
    LET video_id == LiveStreamListView_video_id(p)
    IN  IF video_id # <<>>
        THEN Return(<<"h","t","t","p","s",":","/","/","w","w","w",".","y","o","u","t","u","b","e",".","c","o","m","/","e","m","b","e","d","/">> \o video_id \o <<"?">>
                    \o urlencode(<<<<<<"a","u","t","o","p","l","a","y">>, <<"0">>>>, <<<<"r","e","l">>, <<"0">>>>>>))
        ELSE IF contains(p.path, <<"/","e","m","b","e","d","/">>) THEN Return(url)
        ELSE Return(url)

\* mutant: the empty segments are kept
C10_Mutant_parts(p) == split(p.path, "/")

\* parts = [seg for seg in p.path.split('/') if seg]
LiveStreamListView_parts(p) == SelectSeq(split(p.path, "/"), LAMBDA seg : seg # <<>>)

LiveStreamListView_vimeo(url, p) ==
    LET parts == LiveStreamListView_parts(p)
    IN  IF contains(p.netloc, <<"v","i","m","e","o",".","c","o","m">>) /\ parts # <<>> /\ isdigit(parts[1])
        THEN Return(<<"h","t","t","p","s",":","/","/","p","l","a","y","e","r",".","v","i","m","e","o",".","c","o","m","/","v","i","d","e","o","/">> \o parts[1])
        ELSE Return(url)

\* mutant: the last path segment is taken as the channel
C7_Mutant_channel(p) ==
    LET parts == LiveStreamListView_parts(p)
    IN  IF contains(p.netloc, <<"t","w","i","t","c","h",".","t","v">>) /\ parts # <<>> THEN parts[Len(parts)] ELSE <<>>

\* the channel the Twitch branch extracts, <<>> when there is none
LiveStreamListView_channel(p) ==
    LET parts == LiveStreamListView_parts(p)
    IN  IF contains(p.netloc, <<"t","w","i","t","c","h",".","t","v">>) /\ parts # <<>> THEN parts[1] ELSE <<>>

LiveStreamListView_twitch(p, host) ==
    LET channel == LiveStreamListView_channel(p)
        params  == <<<<<<"p","a","r","e","n","t">>, host>>, <<<<"a","u","t","o","p","l","a","y">>, <<"f","a","l","s","e">>>>>>
    IN  IF channel # <<>>
        THEN LET base == <<"h","t","t","p","s",":","/","/","p","l","a","y","e","r",".","t","w","i","t","c","h",".","t","v","/","?">> \o urlencode(<<<<<<"c","h","a","n","n","e","l">>, channel>>>>)
             IN  Return(base \o <<"&">> \o urlencode(params))
        ELSE Return(<<"h","t","t","p","s",":","/","/","p","l","a","y","e","r",".","t","w","i","t","c","h",".","t","v","/","?">> \o urlencode(params))

LiveStreamListView_facebook(url) ==
    Return(<<"h","t","t","p","s",":","/","/","w","w","w",".","f","a","c","e","b","o","o","k",".","c","o","m","/","p","l","u","g","i","n","s","/","v","i","d","e","o",".","p","h","p","?">>
           \o urlencode(<<<<<<"h","r","e","f">>, url>>, <<<<"s","h","o","w","_","t","e","x","t">>, <<"f","a","l","s","e">>>>, <<<<"a","u","t","o","p","l","a","y">>, <<"f","a","l","s","e">>>>>>))

\* mutant: the facebook branch also sends the requesting host, as parent
C14_Mutant_dispatch(platform_type, url, host, p) ==
    IF p.raised THEN Raise("ValueError")
    ELSE IF platform_type = "youtube" THEN LiveStreamListView_youtube(url, p)
    ELSE IF platform_type = "vimeo" THEN LiveStreamListView_vimeo(url, p)
    ELSE IF platform_type = "twitch" THEN LiveStreamListView_twitch(p, host)
    ELSE IF platform_type = "facebook"
    THEN Return(<<"h","t","t","p","s",":","/","/","w","w","w",".","f","a","c","e","b","o","o","k",".","c","o","m","/","p","l","u","g","i","n","s","/","v","i","d","e","o",".","p","h","p","?">>
                \o urlencode(<<<<<<"h","r","e","f">>, url>>, <<<<"p","a","r","e","n","t">>, host>>,
                               <<<<"s","h","o","w","_","t","e","x","t">>, <<"f","a","l","s","e">>>>, <<<<"a","u","t","o","p","l","a","y">>, <<"f","a","l","s","e">>>>>>))
    ELSE Return(url)

\* the dispatch on platform_type, p being the ParseResult of url
LiveStreamListView_dispatch(platform_type, url, host, p) ==
    IF p.raised THEN Raise("ValueError")
    ELSE IF platform_type = "youtube" THEN LiveStreamListView_youtube(url, p)
    ELSE IF platform_type = "vimeo" THEN LiveStreamListView_vimeo(url, p)
    ELSE IF platform_type = "twitch" THEN LiveStreamListView_twitch(p, host)
    ELSE IF platform_type = "facebook" THEN LiveStreamListView_facebook(url)
    ELSE Return(url)

\* the function from "url = platform_url" on; urlparse runs before the dispatch
\* on platform_type and its ValueError is not caught
LiveStreamListView_embed_of(platform_type, platform_url, host) ==
    LiveStreamListView_dispatch(platform_type, platform_url, host, urlparse(platform_url))

\* mutant: the guard on an empty platform_url is missing
C3_Mutant_build_embed_url(platform_type, platform_url, host) ==
    LiveStreamListView_embed_of(platform_type, platform_url, host)

LiveStreamListView_build_embed_url(platform_type, platform_url, host) ==
    IF platform_url = <<>> THEN Return(<<>>)
    ELSE LiveStreamListView_embed_of(platform_type, platform_url, host)

(***************************************************************************)
(* _build_embed_url inside OnlineTVView.get_context_data                   *)
(* (src/pages/views.py).                                                   *)
(***************************************************************************)
OnlineTVView_video_id(p) ==
    IF contains(p.netloc, <<"y","o","u","t","u","b","e",".","c","o","m">>)
    THEN LET v == parse_qs_get(p.query, <<"v">>)
         IN  IF v # <<>> THEN v[1] ELSE <<>>
    ELSE IF contains(p.netloc, <<"y","o","u","t","u",".","b","e">>)
    THEN strip(p.path, {"/"})
    ELSE <<>>

OnlineTVView_youtube(platform_url, p) ==
    LET video_id == OnlineTVView_video_id(p)
    IN  IF video_id # <<>>
        THEN Return(<<"h","t","t","p","s",":","/","/","w","w","w",".","y","o","u","t","u","b","e",".","c","o","m","/","e","m","b","e","d","/">> \o video_id \o <<"?">>
                    \o urlencode(<<<<<<"a","u","t","o","p","l","a","y">>, <<"0">>>>, <<<<"r","e","l">>, <<"0">>>>>>))
        ELSE IF contains(p.path, <<"/","e","m","b","e","d","/">>) THEN Return(platform_url)
        ELSE Return(platform_url)

\* mutant: the copy takes the last path segment where the original takes the first
C17_Mutant_parts(p) ==
    LET parts == SelectSeq(split(p.path, "/"), LAMBDA seg : seg # <<>>)
    IN  IF parts = <<>> THEN <<>> ELSE <<parts[Len(parts)]>>

OnlineTVView_parts(p) == SelectSeq(split(p.path, "/"), LAMBDA seg : seg # <<>>)

OnlineTVView_vimeo(platform_url, p) ==
    LET parts == OnlineTVView_parts(p)
    IN  IF contains(p.netloc, <<"v","i","m","e","o",".","c","o","m">>) /\ parts # <<>> /\ isdigit(parts[1])
        THEN Return(<<"h","t","t","p","s",":","/","/","p","l","a","y","e","r",".","v","i","m","e","o",".","c","o","m","/","v","i","d","e","o","/">> \o parts[1])
        ELSE Return(platform_url)

OnlineTVView_channel(p) ==
    LET parts == OnlineTVView_parts(p)
    IN  IF contains(p.netloc, <<"t","w","i","t","c","h",".","t","v">>) /\ parts # <<>> THEN parts[1] ELSE <<>>

OnlineTVView_twitch(p, host) ==
    LET channel == OnlineTVView_channel(p)
        params  == <<<<<<"p","a","r","e","n","t">>, host>>, <<<<"a","u","t","o","p","l","a","y">>, <<"f","a","l","s","e">>>>>>
    IN  IF channel # <<>>
        THEN LET base == <<"h","t","t","p","s",":","/","/","p","l","a","y","e","r",".","t","w","i","t","c","h",".","t","v","/","?">> \o urlencode(<<<<<<"c","h","a","n","n","e","l">>, channel>>>>)
             IN  Return(base \o <<"&">> \o urlencode(params))
        ELSE Return(<<"h","t","t","p","s",":","/","/","p","l","a","y","e","r",".","t","w","i","t","c","h",".","t","v","/","?">> \o urlencode(params))

OnlineTVView_facebook(platform_url) ==
    Return(<<"h","t","t","p","s",":","/","/","w","w","w",".","f","a","c","e","b","o","o","k",".","c","o","m","/","p","l","u","g","i","n","s","/","v","i","d","e","o",".","p","h","p","?">>
           \o urlencode(<<<<<<"h","r","e","f">>, platform_url>>, <<<<"s","h","o","w","_","t","e","x","t">>, <<"f","a","l","s","e">>>>,
                          <<<<"a","u","t","o","p","l","a","y">>, <<"f","a","l","s","e">>>>>>))

\* the dispatch on platform_type, p being the ParseResult of platform_url
OnlineTVView_dispatch(platform_type, platform_url, host, p) ==
    IF p.raised THEN Raise("ValueError")
    ELSE IF platform_type = "youtube" THEN OnlineTVView_youtube(platform_url, p)
    ELSE IF platform_type = "vimeo" THEN OnlineTVView_vimeo(platform_url, p)
    ELSE IF platform_type = "twitch" THEN OnlineTVView_twitch(p, host)
    ELSE IF platform_type = "facebook" THEN OnlineTVView_facebook(platform_url)
    ELSE Return(platform_url)

OnlineTVView_build_embed_url(platform_type, platform_url, host) ==
    IF platform_url = <<>> THEN Return(<<>>)
    ELSE OnlineTVView_dispatch(platform_type, platform_url, host, urlparse(platform_url))

(***************************************************************************)
(* Inputs.                                                                 *)
(***************************************************************************)
MaxSegs == 2      \* path segments of a generated URL

MaxFields == 1    \* query fields of a generated URL

\* StreamPlatform.PLATFORM_CHOICES and one tag that is not among them
PlatformTypes == {"youtube", "facebook", "twitch", "vimeo", "direct", "custom", "dailymotion"}

Hosts == {<<"e","x","a","m","p","l","e",".","c","o","m">>, <<"l","o","c","a","l","h","o","s","t",":","8","0","0","0">>}

Prefixes ==
    {<<"h","t","t","p","s",":","/","/","w","w","w",".","y","o","u","t","u","b","e",".","c","o","m">>, <<"h","t","t","p","s",":","/","/","y","o","u","t","u",".","b","e">>, <<"h","t","t","p","s",":","/","/","v","i","m","e","o",".","c","o","m">>,
     <<"h","t","t","p","s",":","/","/","w","w","w",".","t","w","i","t","c","h",".","t","v">>, <<"h","t","t","p","s",":","/","/","e","x","a","m","p","l","e",".","c","o","m">>, <<"h","t","t","p",":","/","/","[">>, <<"y","o","u","t","u",".","b","e">>}

Segments == {<<>>, <<"e","m","b","e","d">>, <<"1","2","3">>}

Fields == {<<"v","=","x","y","z">>, <<"v","=">>, <<"t","=","1">>}

SeqsUpTo(S, n) == UNION {[1..k -> S] : k \in 0..n}

PathOf(segs) == IF segs = <<>> THEN <<>> ELSE <<"/">> \o join(segs, <<"/">>)

QueryOf(fields) == IF fields = <<>> THEN <<>> ELSE <<"?">> \o join(fields, <<"&">>)

GeneratedUrls ==
    {pre \o PathOf(segs) \o QueryOf(fields) :
        pre \in Prefixes, segs \in SeqsUpTo(Segments, MaxSegs),
        fields \in SeqsUpTo(Fields, MaxFields)}

SpecialUrls ==
    {<<>>, <<"a","b","c">>, <<" ","h","t","t","p","s",":","/","/","y","o","u","t","u",".","b","e","/","a","b","c">>,
     <<"h","t","t","p","s",":","/","/","w","w","w",".","y","o","u","t","u","b","e",".","c","o","m","/","w","a","t","c","h","?","v","=","a","%","2","F","b","+","c">>,
     <<"h","t","t","p","s",":","/","/","w","w","w",".","y","o","u","t","u","b","e",".","c","o","m","/","w","a","t","c","h","?","v","=","&","v","=","x","y","z">>,
     <<"h","t","t","p","s",":","/","/","w","w","w",".","y","o","u","t","u","b","e",".","c","o","m","/","w","a","t","c","h","?","v","=","x","1","&","v","=","x","2">>,
     <<"h","t","t","p","s",":","/","/","w","w","w",".","y","o","u","t","u","b","e",".","c","o","m","/","w","a","t","c","h","?","%","7","6","=","z","9">>,
     <<"h","t","t","p","s",":","/","/","w","w","w",".","y","o","u","t","u","b","e",".","c","o","m","/","w","a","t","c","h","?","v">>,
     <<"h","t","t","p","s",":","/","/","w","w","w",".","y","o","u","t","u","b","e",".","c","o","m","/","e","m","b","e","d","/","x","?","t","=","1","#","v","=","2">>,
     <<"h","t","t","p","s",":","/","/","y","o","u","t","u",".","b","e",".","y","o","u","t","u","b","e",".","c","o","m","/","a","b","c","?","v","=","q">>,
     <<"h","t","t","p","s",":","/","/","y","o","u","t","u",".","b","e","/","a","b","c",";","x">>,
     <<"H","T","T","P","S",":","/","/","Y","O","U","T","U",".","B","E","/","a","b","c">>,
     <<"h","t","t","p","s",":","/","/","w","w","w",".","t","w","i","t","c","h",".","t","v","/","a","+","b","/","c"," ","d">>,
     <<"h","t","t","p","s",":","/","/","v","i","m","e","o",".","c","o","m","/","1","2","a">>,
     <<"h","t","t","p","s",":","/","/","u","s","e","r","@","v","i","m","e","o",".","c","o","m",":","8","0","/","4","5","6","/","x">>,
     <<"h","t","t","p",":","/","/","[",":",":","1","]","/","1","2","3">>,
     <<"h","t","t","p",":","/","/","[","x","y","z","]","/","1","2","3">>,
     <<"/","/","w","w","w",".","t","w","i","t","c","h",".","t","v","/","v","i","d","e","o","s","/","1","2","3","4","5">>}

Urls == GeneratedUrls \cup SpecialUrls

(***************************************************************************)
(* The resolver as a state machine: one call on one broadcast.             *)
(***************************************************************************)
Init ==
    /\ b_platform_type \in PlatformTypes
    /\ b_platform_url \in Urls
    /\ request_host \in Hosts
    /\ pc = "ready"
    /\ caller = "none"
    /\ result = NotCalled
    /\ streams = <<>>
    /\ broadcasts = {}
    /\ now = 0
    /\ http_request = NoRequest
    /\ http_response = NoResponse
    /\ inflight = <<>>

CallLiveStreamResolver ==
    /\ pc = "ready"
    /\ result' = LiveStreamListView_build_embed_url(b_platform_type, b_platform_url, request_host)
    /\ caller' = "livestream"
    /\ pc' = "done"
    /\ UNCHANGED <<b_platform_type, b_platform_url, request_host>>
    /\ UNCHANGED <<database_vars, now, http_vars, inflight>>

CallOnlineTVResolver ==
    /\ pc = "ready"
    /\ result' = OnlineTVView_build_embed_url(b_platform_type, b_platform_url, request_host)
    /\ caller' = "online_tv"
    /\ pc' = "done"
    /\ UNCHANGED <<b_platform_type, b_platform_url, request_host>>
    /\ UNCHANGED <<database_vars, now, http_vars, inflight>>

Next == CallLiveStreamResolver \/ CallOnlineTVResolver

Spec == Init /\ [][Next]_vars

(***************************************************************************)
(* Vocabulary of the properties.  A URL has a host, a path and a query     *)
(* only when urlparse accepts it.                                          *)
(***************************************************************************)
Done == pc = "done"

Parsed == urlparse(b_platform_url)

Parses == ~Parsed.raised

HostContains(name) == Parses /\ contains(Parsed.netloc, name)

\* the first non-empty segment of a path, <<>> when it has none
FirstSegment(path) ==
    LET body == {i \in 1..Len(path) : path[i] # "/"}
    IN  IF body = {} THEN <<>>
        ELSE LET a      == SetMin(body)
                 slash  == {j \in a..Len(path) : path[j] = "/"}
                 b      == IF slash = {} THEN Len(path) ELSE SetMin(slash) - 1
             IN  SubSeq(path, a, b)

AllDigits(s) == s # <<>> /\ Range(s) \subseteq {"0", "1", "2", "3", "4", "5", "6", "7", "8", "9"}

\* the values of the query parameter name, in order, blank ones included
ParamValues(query, name) ==
    LET pairs == SelectSeq(parse_qsl(query, TRUE), LAMBDA nv : nv[1] = name)
    IN  [i \in 1..Len(pairs) |-> pairs[i][2]]

NonBlank(values) == SelectSeq(values, LAMBDA v : v # <<>>)

YoutubeEmbed(video_id) == <<"h","t","t","p","s",":","/","/","w","w","w",".","y","o","u","t","u","b","e",".","c","o","m","/","e","m","b","e","d","/">> \o video_id \o <<"?","a","u","t","o","p","l","a","y","=","0","&","r","e","l","=","0">>

\* no video id can be taken from the URL
NoVideoId ==
    /\ Parses
    /\ HostContains(<<"y","o","u","t","u","b","e",".","c","o","m">>) => NonBlank(ParamValues(Parsed.query, <<"v">>)) = <<>>
    /\ ~HostContains(<<"y","o","u","t","u","b","e",".","c","o","m">>) /\ HostContains(<<"y","o","u","t","u",".","b","e">>) => FirstSegment(Parsed.path) = <<>>

(***************************************************************************)
(* Properties of the resolver.                                             *)
(***************************************************************************)
\* C1: for every platform_type, platform_url and host the resolver returns a
\* string; it never raises, not even on a URL the URL parser rejects.
C1_AlwaysReturnsString == Done => result.kind = "return"

\* the URL lacks what its platform's branch looks for, or does not parse
C2_Malformed ==
    \/ ~Parses
    \/ b_platform_type = "youtube" /\ NoVideoId
    \/ b_platform_type = "vimeo"
         /\ (~HostContains(<<"v","i","m","e","o",".","c","o","m">>) \/ ~AllDigits(FirstSegment(Parsed.path)))
    \/ b_platform_type = "twitch"
         /\ (~HostContains(<<"t","w","i","t","c","h",".","t","v">>) \/ FirstSegment(Parsed.path) = <<>>)
    \/ b_platform_type = "facebook" /\ ~HostContains(<<"f","a","c","e","b","o","o","k",".","c","o","m">>)

\* C2: a non-empty platform_url that is malformed, or lacks the segments its
\* platform expects, is returned unchanged, whatever the platform_type.
C2_MalformedReturnsOriginal ==
    Done /\ b_platform_url # <<>> /\ C2_Malformed => result = Return(b_platform_url)

\* C3: an empty platform_url gives the empty string, for every platform_type
\* and every requesting host.
C3_EmptyUrlReturnsEmpty == Done /\ b_platform_url = <<>> => result = Return(<<>>)

C3_Witness ==
    Done /\ b_platform_url = <<>> /\ b_platform_type = "twitch" /\ result = Return(<<>>)

\* C4 as stated: for youtube, a URL whose host contains youtube.com and whose
\* query has a parameter v gives the embed URL of the value of v.
C4_AnyVParameterEmbeds ==
    Done /\ b_platform_type = "youtube" /\ HostContains(<<"y","o","u","t","u","b","e",".","c","o","m">>)
         /\ ParamValues(Parsed.query, <<"v">>) # <<>>
    => result = Return(YoutubeEmbed(ParamValues(Parsed.query, <<"v">>)[1]))

\* C4 amended: for youtube, a URL whose host contains youtube.com and whose
\* query has a parameter v with a non-empty value gives the embed URL of the
\* first such value, percent-decoded.
C4_NonBlankVParameterEmbeds ==
    Done /\ b_platform_type = "youtube" /\ HostContains(<<"y","o","u","t","u","b","e",".","c","o","m">>)
         /\ NonBlank(ParamValues(Parsed.query, <<"v">>)) # <<>>
    => result = Return(YoutubeEmbed(NonBlank(ParamValues(Parsed.query, <<"v">>))[1]))

C4_Witness ==
    /\ Done /\ b_platform_type = "youtube"
    /\ b_platform_url = <<"h","t","t","p","s",":","/","/","w","w","w",".","y","o","u","t","u","b","e",".","c","o","m","/","w","a","t","c","h","?","v","=","a","%","2","F","b","+","c">>
    /\ result = Return(<<"h","t","t","p","s",":","/","/","w","w","w",".","y","o","u","t","u","b","e",".","c","o","m","/","e","m","b","e","d","/","a","/","b"," ","c","?","a","u","t","o","p","l","a","y","=","0","&","r","e","l","=","0">>)

\* the path without its leading slash
LeadingSlashStripped(path) == IF path # <<>> /\ path[1] = "/" THEN Tail(path) ELSE path

\* the path without the slashes at its two ends
SlashesTrimmed(path) ==
    LET body == {i \in 1..Len(path) : path[i] # "/"}
    IN  IF body = {} THEN <<>> ELSE SubSeq(path, SetMin(body), SetMax(body))

\* C5 as stated: for youtube, a URL whose host contains youtu.be gives the
\* embed URL of its path with the leading slash stripped.
C5_AnyYoutuBeEmbeds ==
    Done /\ b_platform_type = "youtube" /\ HostContains(<<"y","o","u","t","u",".","b","e">>)
    => result = Return(YoutubeEmbed(LeadingSlashStripped(Parsed.path)))

\* C5 amended: for youtube, a URL whose host contains youtu.be and not
\* youtube.com, and whose path has a character other than a slash, gives the
\* embed URL of its path with the leading and the trailing slashes stripped.
C5_YoutuBeWithIdEmbeds ==
    Done /\ b_platform_type = "youtube" /\ HostContains(<<"y","o","u","t","u",".","b","e">>)
         /\ ~HostContains(<<"y","o","u","t","u","b","e",".","c","o","m">>) /\ SlashesTrimmed(Parsed.path) # <<>>
    => result = Return(YoutubeEmbed(SlashesTrimmed(Parsed.path)))

C5_Witness ==
    /\ Done /\ b_platform_type = "youtube"
    /\ b_platform_url = <<"h","t","t","p","s",":","/","/","y","o","u","t","u",".","b","e","/","1","2","3","/">>
    /\ result = Return(<<"h","t","t","p","s",":","/","/","w","w","w",".","y","o","u","t","u","b","e",".","c","o","m","/","e","m","b","e","d","/","1","2","3","?","a","u","t","o","p","l","a","y","=","0","&","r","e","l","=","0">>)

\* C6 as stated: for youtube, a URL whose path contains /embed/ is returned
\* unchanged, whatever its host and query string.
C6_AnyEmbedPathUnchanged ==
    Done /\ b_platform_type = "youtube" /\ Parses /\ contains(Parsed.path, <<"/","e","m","b","e","d","/">>)
    => result = Return(b_platform_url)

\* C6 amended: for youtube, a URL whose path contains /embed/ and from which
\* no video id is taken (its host contains youtube.com and its query has no
\* non-empty v, or its host contains neither youtube.com nor youtu.be) is
\* returned unchanged.
C6_EmbedPathWithoutIdUnchanged ==
    Done /\ b_platform_type = "youtube" /\ Parses /\ contains(Parsed.path, <<"/","e","m","b","e","d","/">>)
         /\ NoVideoId
    => result = Return(b_platform_url)

C6_Witness ==
    /\ Done /\ b_platform_type = "youtube"
    /\ b_platform_url = <<"h","t","t","p","s",":","/","/","w","w","w",".","y","o","u","t","u","b","e",".","c","o","m","/","e","m","b","e","d","/","1","2","3","?","t","=","1">>
    /\ result = Return(b_platform_url)

\* C7 as stated: for twitch, a URL whose host contains twitch.tv and whose
\* path has a first segment gives the player URL with channel = that segment
\* and parent = the requesting host as given, a host with a port included.
C7_ChannelAndHostVerbatim ==
    Done /\ b_platform_type = "twitch" /\ HostContains(<<"t","w","i","t","c","h",".","t","v">>)
         /\ FirstSegment(Parsed.path) # <<>>
    => result = Return(<<"h","t","t","p","s",":","/","/","p","l","a","y","e","r",".","t","w","i","t","c","h",".","t","v","/","?","c","h","a","n","n","e","l","=">> \o FirstSegment(Parsed.path)
                       \o <<"&","p","a","r","e","n","t","=">> \o request_host \o <<"&","a","u","t","o","p","l","a","y","=","f","a","l","s","e">>)

\* C7 amended: for twitch, a URL whose host contains twitch.tv and whose path
\* has a first segment gives the player URL with channel = that segment and
\* parent = the requesting host, both url-encoded (quote_plus).
C7_ChannelAndHostEncoded ==
    Done /\ b_platform_type = "twitch" /\ HostContains(<<"t","w","i","t","c","h",".","t","v">>)
         /\ FirstSegment(Parsed.path) # <<>>
    => result = Return(<<"h","t","t","p","s",":","/","/","p","l","a","y","e","r",".","t","w","i","t","c","h",".","t","v","/","?","c","h","a","n","n","e","l","=">>
                       \o quote_plus(FirstSegment(Parsed.path))
                       \o <<"&","p","a","r","e","n","t","=">> \o quote_plus(request_host) \o <<"&","a","u","t","o","p","l","a","y","=","f","a","l","s","e">>)

C7_Witness ==
    /\ Done /\ b_platform_type = "twitch"
    /\ b_platform_url = <<"h","t","t","p","s",":","/","/","w","w","w",".","t","w","i","t","c","h",".","t","v","/","a","+","b","/","c"," ","d">>
    /\ request_host = <<"l","o","c","a","l","h","o","s","t",":","8","0","0","0">>
    /\ result = Return(<<"h","t","t","p","s",":","/","/","p","l","a","y","e","r",".","t","w","i","t","c","h",".","t","v","/","?","c","h","a","n","n","e","l","=","a","%","2","B","b","&","p","a","r","e","n","t","=","l","o","c","a","l","h","o","s","t","%","3","A","8","0","0","0","&","a","u","t","o","p","l","a","y","=","f","a","l","s","e">>)

\* C8: for twitch, a non-empty URL from which no channel can be taken (its
\* host does not contain twitch.tv, or its path has no non-empty segment)
\* gives the player URL without channel, with parent = the requesting host
\* (url-encoded) and autoplay=false.
C8_NoChannelGivesParentOnly ==
    Done /\ b_platform_type = "twitch" /\ b_platform_url # <<>>
         /\ (~HostContains(<<"t","w","i","t","c","h",".","t","v">>) \/ FirstSegment(Parsed.path) = <<>>)
    => result = Return(<<"h","t","t","p","s",":","/","/","p","l","a","y","e","r",".","t","w","i","t","c","h",".","t","v","/","?","p","a","r","e","n","t","=">> \o quote_plus(request_host)
                       \o <<"&","a","u","t","o","p","l","a","y","=","f","a","l","s","e">>)

\* C9: for facebook, every non-empty URL, whatever its host or shape, gives
\* the video plugin URL with href = the url-encoded original URL.
C9_FacebookAlwaysPlugin ==
    Done /\ b_platform_type = "facebook" /\ b_platform_url # <<>>
    => result = Return(<<"h","t","t","p","s",":","/","/","w","w","w",".","f","a","c","e","b","o","o","k",".","c","o","m","/","p","l","u","g","i","n","s","/","v","i","d","e","o",".","p","h","p","?","h","r","e","f","=">>
                       \o quote_plus(b_platform_url)
                       \o <<"&","s","h","o","w","_","t","e","x","t","=","f","a","l","s","e","&","a","u","t","o","p","l","a","y","=","f","a","l","s","e">>)

\* C10: for vimeo, a URL whose host contains vimeo.com and whose first
\* non-empty path segment is all digits gives the player URL of that segment.
C10_VimeoNumericEmbeds ==
    Done /\ b_platform_type = "vimeo" /\ HostContains(<<"v","i","m","e","o",".","c","o","m">>)
         /\ AllDigits(FirstSegment(Parsed.path))
    => result = Return(<<"h","t","t","p","s",":","/","/","p","l","a","y","e","r",".","v","i","m","e","o",".","c","o","m","/","v","i","d","e","o","/">> \o FirstSegment(Parsed.path))

C10_Witness ==
    /\ Done /\ b_platform_type = "vimeo"
    /\ b_platform_url = <<"h","t","t","p","s",":","/","/","u","s","e","r","@","v","i","m","e","o",".","c","o","m",":","8","0","/","4","5","6","/","x">>
    /\ result = Return(<<"h","t","t","p","s",":","/","/","p","l","a","y","e","r",".","v","i","m","e","o",".","c","o","m","/","v","i","d","e","o","/","4","5","6">>)

\* the platform types with a branch of their own
HandledTypes == {"youtube", "vimeo", "twitch", "facebook"}

\* C11: for every platform_type other than youtube, vimeo, twitch and
\* facebook (direct, custom and any unknown tag) and every non-empty URL, the
\* resolver returns platform_url unchanged.
C11_OtherTypesPassThrough ==
    Done /\ b_platform_type \notin HandledTypes /\ b_platform_url # <<>>
    => result = Return(b_platform_url)

\* C12: for youtube, a URL that yields no video id (its host contains neither
\* youtube.com nor youtu.be, or it is a youtube.com URL without a v
\* parameter, or a youtu.be URL with an empty path) is returned unchanged.
C12_YoutubeWithoutIdUnchanged ==
    Done /\ b_platform_type = "youtube" /\ b_platform_url # <<>>
         /\ \/ ~HostContains(<<"y","o","u","t","u","b","e",".","c","o","m">>) /\ ~HostContains(<<"y","o","u","t","u",".","b","e">>)
            \/ HostContains(<<"y","o","u","t","u","b","e",".","c","o","m">>) /\ ParamValues(Parsed.query, <<"v">>) = <<>>
            \/ HostContains(<<"y","o","u","t","u",".","b","e">>) /\ ~HostContains(<<"y","o","u","t","u","b","e",".","c","o","m">>) /\ Parsed.path = <<>>
    => result = Return(b_platform_url)

\* C13: for vimeo, a non-empty URL whose host does not contain vimeo.com, or
\* whose first non-empty path segment is missing or not numeric, is returned
\* unchanged.
C13_VimeoWithoutIdUnchanged ==
    Done /\ b_platform_type = "vimeo" /\ b_platform_url # <<>>
         /\ (~HostContains(<<"v","i","m","e","o",".","c","o","m">>) \/ ~AllDigits(FirstSegment(Parsed.path)))
    => result = Return(b_platform_url)

\* the resolver that ran in this state, applied to another host
ResolverOf(c, platform_type, platform_url, h) ==
    IF c = "livestream" THEN LiveStreamListView_build_embed_url(platform_type, platform_url, h)
    ELSE OnlineTVView_build_embed_url(platform_type, platform_url, h)

\* C14: the requesting host influences the outcome only for twitch: for every
\* other platform_type and every platform_url, the call gives the same
\* outcome for any two hosts.
C14_HostMattersOnlyForTwitch ==
    Done /\ b_platform_type # "twitch"
    => \A h2 \in Hosts : ResolverOf(caller, b_platform_type, b_platform_url, h2) = result

C14_Witness ==
    /\ Done /\ b_platform_type = "facebook" /\ request_host = <<"l","o","c","a","l","h","o","s","t",":","8","0","0","0">>
    /\ b_platform_url = <<"h","t","t","p","s",":","/","/","e","x","a","m","p","l","e",".","c","o","m","/","1","2","3","?","t","=","1">>
    /\ result.kind = "return"
    /\ result = ResolverOf(caller, b_platform_type, b_platform_url, <<"e","x","a","m","p","l","e",".","c","o","m">>)

\* C17: the two copies of the resolver are equivalent: on every platform_type,
\* platform_url and host they return the same string or raise the same
\* exception.
C17_ResolversEquivalent ==
    Done => /\ result = LiveStreamListView_build_embed_url(b_platform_type, b_platform_url, request_host)
            /\ result = OnlineTVView_build_embed_url(b_platform_type, b_platform_url, request_host)

C17_Witness ==
    /\ Done /\ caller = "online_tv" /\ b_platform_type = "twitch"
    /\ b_platform_url = <<"/","/","w","w","w",".","t","w","i","t","c","h",".","t","v","/","v","i","d","e","o","s","/","1","2","3","4","5">>
    /\ request_host = <<"e","x","a","m","p","l","e",".","c","o","m">>
    /\ result = Return(<<"h","t","t","p","s",":","/","/","p","l","a","y","e","r",".","t","w","i","t","c","h",".","t","v","/","?","c","h","a","n","n","e","l","=","v","i","d","e","o","s","&","p","a","r","e","n","t","=","e","x","a","m","p","l","e",".","c","o","m","&","a","u","t","o","p","l","a","y","=","f","a","l","s","e">>)
    /\ result = LiveStreamListView_build_embed_url(b_platform_type, b_platform_url, request_host)

(***************************************************************************)
(* LiveStream rows and the views that write them.                          *)
(***************************************************************************)
STATUS_CHOICES == {"scheduled", "live", "ended", "cancelled"}

\* a nullable DateTimeField: Null, or At(t) for the time t
Null == <<>>

At(t) == <<t>>

MaxTime == 3

Times == 0..MaxTime

StreamIds == {1}

\* values of LiveStream.scheduled_start
ScheduledStarts == {1, 2}

\* pk values a URL can name: the stored ones and one that matches no row
RequestedIds == StreamIds \cup {9}

Methods == {"GET", "POST"}

\* request.user.is_staff is False for the anonymous user and True for staff
Users == {"anonymous", "staff"}

is_staff(user) == user = "staff"

\* request.POST.get('status'): a choice, some other text, or None (no such field)
PostedStatuses == STATUS_CHOICES \cup {"paused", "None"}

\* the calls of update_stream_status: every valid POST by either user, and one call
\* for each way of being turned down (not a POST, no such stream, not a choice, no status)
StatusRequests ==
    [method : {"POST"}, user : Users, stream_id : StreamIds, status : STATUS_CHOICES]
    \cup [method : {"GET"}, user : {"staff"}, stream_id : RequestedIds, status : {"live"}]
    \cup [method : {"POST"}, user : {"staff"}, stream_id : RequestedIds \ StreamIds,
          status : {"live", "paused"}]
    \cup [method : {"POST"}, user : {"staff"}, stream_id : StreamIds,
          status : PostedStatuses \ STATUS_CHOICES]

\* the row LiveStreamCreateView saves: status and timestamps are not form fields
NewStream(is_public, scheduled_start) ==
    [status |-> "scheduled", actual_start |-> Null, actual_end |-> Null,
     is_public |-> is_public, scheduled_start |-> scheduled_start]

is_live(stream) == stream.status = "live"

\* LiveStream.duration: None unless both timestamps are set
duration(stream) ==
    IF stream.actual_start # Null /\ stream.actual_end # Null
    THEN At(stream.actual_end[1] - stream.actual_start[1])
    ELSE Null

JsonResponse(status_code, data) == [status_code |-> status_code, data |-> data]

HttpResponse(status_code) == [status_code |-> status_code, data |-> <<>>]

\* the transition without the guard on the old status: actual_start is stamped on every 'live'
C18_Mutant_update_stream_status_save(stream, new_status, t) ==
    [stream EXCEPT !.status = new_status,
                   !.actual_start = IF new_status = "live" THEN At(t) ELSE @,
                   !.actual_end = IF new_status = "ended" /\ stream.status = "live"
                                  THEN At(t) ELSE @]

\* the row update_stream_status saves for a valid new status, at time t
update_stream_status_save(stream, new_status, t) ==
    [stream EXCEPT !.status = new_status,
                   !.actual_start = IF new_status = "live" /\ stream.status # "live"
                                    THEN At(t) ELSE @,
                   !.actual_end = IF new_status = "live" /\ stream.status # "live"
                                  THEN @
                                  ELSE IF new_status = "ended" /\ stream.status = "live"
                                  THEN At(t) ELSE @]

\* a status that is no choice is saved all the same
C23_Mutant_update_stream_status_saves(method, stream_id, status) ==
    /\ method = "POST"
    /\ stream_id \in DOMAIN streams

\* the call reaches stream.save(): a POST, the stream exists, the status is a choice
update_stream_status_saves(method, stream_id, status) ==
    /\ method = "POST"
    /\ stream_id \in DOMAIN streams
    /\ status \in STATUS_CHOICES

update_stream_status_response(method, stream_id, status) ==
    IF method # "POST" THEN JsonResponse(405, [error |-> "Method not allowed"])
    ELSE IF stream_id \notin DOMAIN streams THEN JsonResponse(404, [error |-> "Stream not found"])
    ELSE IF status \notin STATUS_CHOICES THEN JsonResponse(400, [error |-> "Invalid status"])
    ELSE JsonResponse(200, [success |-> TRUE, status |-> status])

\* one call of the endpoint; the view does not look at request.user
update_stream_status ==
    \E request \in StatusRequests :
        /\ http_request' = [view |-> "update_stream_status", method |-> request.method,
                            user |-> request.user, stream_id |-> request.stream_id,
                            status |-> request.status]
        /\ http_response' = update_stream_status_response(request.method, request.stream_id,
                                                          request.status)
        /\ streams' = IF update_stream_status_saves(request.method, request.stream_id,
                                                    request.status)
                      THEN [streams EXCEPT ![request.stream_id] =
                                update_stream_status_save(@, request.status, now)]
                      ELSE streams
        /\ UNCHANGED <<broadcasts, now, inflight, resolver_vars>>

\* time passes between requests
Tick ==
    /\ now < MaxTime
    /\ now' = now + 1
    /\ UNCHANGED <<database_vars, http_vars, inflight, resolver_vars>>


InitStatus ==
    /\ streams \in [StreamIds -> {NewStream(is_public, scheduled_start) :
                                      is_public \in BOOLEAN, scheduled_start \in ScheduledStarts}]
    /\ broadcasts = {}
    /\ now = 0
    /\ http_request = NoRequest
    /\ http_response = NoResponse
    /\ inflight = <<>>
    /\ b_platform_type = "direct"
    /\ b_platform_url = <<>>
    /\ request_host = <<"e","x","a","m","p","l","e",".","c","o","m">>
    /\ pc = "idle"
    /\ caller = "none"
    /\ result = NotCalled

NextStatus == update_stream_status \/ Tick

SpecStatus == InitStatus /\ [][NextStatus]_vars

\* the row a valid edit form saves: status is a form field, the timestamps are not
LiveStreamUpdateView_save(stream, status, is_public, scheduled_start) ==
    [stream EXCEPT !.status = status, !.is_public = is_public,
                   !.scheduled_start = scheduled_start]

\* the form is valid when status is one of the choices (the other fields are drawn valid)
LiveStreamUpdateView_saves(method, user, pk, status) ==
    /\ is_staff(user)
    /\ pk \in DOMAIN streams
    /\ method = "POST"
    /\ status \in STATUS_CHOICES

LiveStreamUpdateView_response(method, user, pk, status) ==
    IF ~is_staff(user) THEN HttpResponse(302)
    ELSE IF pk \notin DOMAIN streams THEN HttpResponse(404)
    ELSE IF method = "POST" /\ status \in STATUS_CHOICES THEN HttpResponse(302)
    ELSE HttpResponse(200)

\* the requests to the edit page: every valid form posted by staff, and one request for
\* each way of saving nothing (not staff, a GET, no such stream, a status that is no choice)
EditRequests ==
    [method : {"POST"}, user : {"staff"}, stream_id : StreamIds, status : STATUS_CHOICES,
     is_public : BOOLEAN, scheduled_start : ScheduledStarts]
    \cup [method : Methods, user : {"anonymous"}, stream_id : StreamIds, status : {"live"},
          is_public : {TRUE}, scheduled_start : {1}]
    \cup [method : {"GET"}, user : {"staff"}, stream_id : StreamIds, status : {"live"},
          is_public : {TRUE}, scheduled_start : {1}]
    \cup [method : {"POST"}, user : {"staff"}, stream_id : RequestedIds \ StreamIds,
          status : {"live"}, is_public : {TRUE}, scheduled_start : {1}]
    \cup [method : {"POST"}, user : {"staff"}, stream_id : StreamIds,
          status : PostedStatuses \ STATUS_CHOICES, is_public : {TRUE}, scheduled_start : {1}]

\* one request to the edit page of a stream
LiveStreamUpdateView ==
    \E request \in EditRequests :
        /\ http_request' = [view |-> "LiveStreamUpdateView", method |-> request.method,
                            user |-> request.user, stream_id |-> request.stream_id,
                            status |-> request.status, is_public |-> request.is_public,
                            scheduled_start |-> request.scheduled_start]
        /\ http_response' = LiveStreamUpdateView_response(request.method, request.user,
                                                          request.stream_id, request.status)
        /\ streams' = IF LiveStreamUpdateView_saves(request.method, request.user,
                                                    request.stream_id, request.status)
                      THEN [streams EXCEPT ![request.stream_id] =
                                LiveStreamUpdateView_save(@, request.status, request.is_public,
                                                          request.scheduled_start)]
                      ELSE streams
        /\ UNCHANGED <<broadcasts, now, inflight, resolver_vars>>

NextEdit == update_stream_status \/ LiveStreamUpdateView \/ Tick

SpecEdit == InitStatus /\ [][NextEdit]_vars

(***************************************************************************)
(* The pages that render broadcasts: LiveStreamDetailView and OnlineTVView. *)
(* Each render is a get_context_data call in progress; renders of          *)
(* different requests interleave between their database reads and the      *)
(* building of the context.                                                *)
(***************************************************************************)
\* the characters str.strip() removes among those of the model
Whitespace == {" ", Control[10], Control[11], Control[12], Control[13], Control[14],
               Control[29], Control[30], Control[31], Control[32]}

MaxBroadcasts == 2

\* a StreamPlatform with the URL stored for it: padded, unparseable, blank
StoredLinks ==
    {[platform_type |-> "twitch", platform_url |-> <<" ","h","t","t","p","s",":","/","/","w","w","w",".","t","w","i","t","c","h",".","t","v","/","s","h","a","l","o","m"," ">>],
     [platform_type |-> "youtube", platform_url |-> <<"h","t","t","p",":","/","/","[">>],
     [platform_type |-> "direct", platform_url |-> <<>>]}

ViewedStreamIds == {1, 2}

StreamBroadcastRows ==
    [stream : ViewedStreamIds, link : StoredLinks, broadcast_started : {Null, At(1)}]

\* unique_together = ['stream', 'platform']
unique_together(rows) ==
    \A x \in rows, y \in rows : x.stream = y.stream /\ x.link = y.link => x = y

StreamBroadcastTables ==
    {rows \in SUBSET StreamBroadcastRows :
        Cardinality(rows) <= MaxBroadcasts /\ unique_together(rows)}

\* stream.streambroadcast_set
streambroadcast_set(pk) == {b \in broadcasts : b.stream = pk}

\* the orders in which a query without order_by can return the rows
Listings(rows) ==
    {l \in [1..Cardinality(rows) -> rows] : \A b \in rows : \E i \in DOMAIN l : l[i] = b}

\* order_by(key descending).first() for the rows key is defined on: a row with the greatest
\* key; rows with a NULL key sort first or last by the database backend, and equal keys in
\* any order
first_descending(key) ==
    {x \in DOMAIN key : key[x] = Null}
    \cup {x \in DOMAIN key : key[x] # Null /\ \A y \in DOMAIN key : key[y] # Null => key[x][1] >= key[y][1]}

by_broadcast_started(rows) == [b \in rows |-> b.broadcast_started]

by_scheduled_start(pks) == [pk \in pks |-> At(streams[pk].scheduled_start)]

\* the filter on status alone: a live stream that is not public is taken too
C24_Mutant_live_public == {pk \in DOMAIN streams : streams[pk].status = "live"}

\* LiveStream.objects.filter(is_public=True, status='live')
live_public == {pk \in DOMAIN streams : streams[pk].is_public /\ streams[pk].status = "live"}

\* LiveStream.objects.filter(is_public=True)
public == {pk \in DOMAIN streams : streams[pk].is_public}

\* the streams OnlineTVView can show: a live public one, else any public one, else None
OnlineTVView_stream ==
    IF live_public # {} THEN {At(pk) : pk \in first_descending(by_scheduled_start(live_public))}
    ELSE IF public # {} THEN {At(pk) : pk \in first_descending(by_scheduled_start(public))}
    ELSE {Null}

\* the broadcast it embeds: the latest started of the stream, None without a stream or rows
OnlineTVView_b(stream) ==
    IF stream = Null \/ streambroadcast_set(stream[1]) = {} THEN {Null}
    ELSE {At(b) : b \in first_descending(by_broadcast_started(streambroadcast_set(stream[1])))}

Slots == {"r1", "r2"}

Idle == [pc |-> "idle"]

\* a request object shared by the renders: the host of the other request once it has arrived
C15_Mutant_get_host(r) ==
    IF \E o \in Slots \ {r} : inflight[o].pc # "idle"
    THEN inflight[CHOOSE o \in Slots \ {r} : inflight[o].pc # "idle"].host
    ELSE inflight[r].host

\* self.request.get_host() in the render of slot r
get_host(r) == inflight[r].host

\* what each view class defines in its body (Django's generic views define neither)
ClassAttributes(cls) ==
    CASE cls = "AdminRequiredMixin" -> {"dispatch"}
      [] cls = "LiveStreamListView" ->
            {"model", "template_name", "context_object_name", "paginate_by",
             "get_queryset", "get_context_data", "_build_embed_url"}
      [] cls = "LiveStreamDetailView" ->
            {"model", "template_name", "context_object_name", "get_context_data"}
      [] cls \in {"ListView", "DetailView"} ->
            {"get", "get_queryset", "get_context_data", "get_context_object_name",
             "get_template_names", "render_to_response"}
      [] cls = "LoginRequiredMixin" ->
            {"dispatch", "handle_no_permission", "get_login_url"}
      [] OTHER -> {}

Bases(cls) ==
    CASE cls = "AdminRequiredMixin" -> {"LoginRequiredMixin"}
      [] cls = "LiveStreamListView" -> {"AdminRequiredMixin", "ListView"}
      [] cls = "LiveStreamDetailView" -> {"AdminRequiredMixin", "DetailView"}
      [] OTHER -> {}

RECURSIVE hasattr(_, _)
\* whether looking name up on an instance of cls finds it in the class or a base
hasattr(cls, name) ==
    name \in ClassAttributes(cls) \/ \E base \in Bases(cls) : hasattr(base, name)

\* self._build_embed_url(platform_type, platform_url, host) with self an instance of cls
self_build_embed_url(cls, platform_type, platform_url, host) ==
    IF hasattr(cls, "_build_embed_url")
    THEN LiveStreamListView_build_embed_url(platform_type, platform_url, host)
    ELSE Raise("AttributeError")

\* the broadcast instance after b.embed_url = embed_url
with_embed_url(b, embed_url) ==
    [stream |-> b.stream, link |-> b.link, broadcast_started |-> b.broadcast_started,
     embed_url |-> embed_url]

\* (b.platform_url or '').strip()
context_url(b) == strip(b.link.platform_url, Whitespace)

RECURSIVE annotate(_, _, _)
RECURSIVE annotate_next(_, _, _, _)
\* the loop from the i-th broadcast on: the annotated list, or the exception that ends it
annotate(bs, i, host) ==
    IF i > Len(bs) THEN Return(bs)
    ELSE annotate_next(bs, i, host,
             self_build_embed_url("LiveStreamDetailView", bs[i].link.platform_type,
                                  context_url(bs[i]), host))

annotate_next(bs, i, host, embed) ==
    IF embed.kind = "raise" THEN embed
    ELSE annotate([bs EXCEPT ![i] = with_embed_url(@, embed.value)], i + 1, host)

\* the detail page of a stream receives a request and lists the broadcasts of the stream
LiveStreamDetailView_query(r) ==
    /\ inflight[r].pc = "idle"
    /\ \E host \in Hosts, pk \in DOMAIN streams :
         \E listing \in Listings(streambroadcast_set(pk)) :
            inflight' = [inflight EXCEPT ![r] =
                [pc |-> "queried", view |-> "detail", host |-> host, object |-> pk,
                 broadcasts |-> listing]]
    /\ UNCHANGED <<database_vars, now, http_vars, resolver_vars>>

\* it annotates each broadcast and returns the context
LiveStreamDetailView_get_context_data(r) ==
    /\ inflight[r].pc = "queried"
    /\ inflight[r].view = "detail"
    /\ inflight' = [inflight EXCEPT ![r] =
            [pc |-> "done", view |-> "detail", host |-> @.host, object |-> @.object,
             broadcasts |-> @.broadcasts,
             response |-> annotate(@.broadcasts, 1, get_host(r))]]
    /\ UNCHANGED <<database_vars, now, http_vars, resolver_vars>>

\* the online TV page receives a request and picks the stream and its broadcast
OnlineTVView_query(r) ==
    /\ inflight[r].pc = "idle"
    /\ \E host \in Hosts, stream \in OnlineTVView_stream :
         \E b \in OnlineTVView_b(stream) :
            inflight' = [inflight EXCEPT ![r] =
                [pc |-> "queried", view |-> "online_tv", host |-> host, stream |-> stream,
                 b |-> b]]
    /\ UNCHANGED <<database_vars, now, http_vars, resolver_vars>>

\* embed_url of the context: '' without a broadcast, else the resolved URL
OnlineTVView_embed_url(b, host) ==
    IF b = Null THEN Return(<<>>)
    ELSE OnlineTVView_build_embed_url(b[1].link.platform_type, context_url(b[1]), host)

\* it resolves the URL of the broadcast and returns the context
OnlineTVView_get_context_data(r) ==
    /\ inflight[r].pc = "queried"
    /\ inflight[r].view = "online_tv"
    /\ inflight' = [inflight EXCEPT ![r] =
            [pc |-> "done", view |-> "online_tv", host |-> @.host, stream |-> @.stream,
             b |-> @.b, response |-> OnlineTVView_embed_url(@.b, get_host(r))]]
    /\ UNCHANGED <<database_vars, now, http_vars, resolver_vars>>

\* stream 1 has gone live, stream 2 is scheduled; each is public or not
StreamTables ==
    {[pk \in ViewedStreamIds |->
        IF pk = 1 THEN update_stream_status_save(NewStream(first_public, 1), "live", 0)
        ELSE NewStream(second_public, 2)] : first_public \in BOOLEAN, second_public \in BOOLEAN}

InitViews ==
    /\ streams \in StreamTables
    /\ broadcasts \in StreamBroadcastTables
    /\ inflight = [r \in Slots |-> Idle]
    /\ now = 0
    /\ http_request = NoRequest
    /\ http_response = NoResponse
    /\ b_platform_type = "direct"
    /\ b_platform_url = <<>>
    /\ request_host = <<"e","x","a","m","p","l","e",".","c","o","m">>
    /\ pc = "idle"
    /\ caller = "none"
    /\ result = NotCalled

NextViews ==
    \E r \in Slots :
        \/ LiveStreamDetailView_query(r)
        \/ LiveStreamDetailView_get_context_data(r)
        \/ OnlineTVView_query(r)
        \/ OnlineTVView_get_context_data(r)

SpecViews == InitViews /\ [][NextViews]_vars

(***************************************************************************)
(* The other views of the livestream app that write LiveStream rows.       *)
(***************************************************************************)
\* the requests to the add page: every valid form posted by staff, and one request for
\* each way of saving nothing (not staff, a GET)
CreateRequests ==
    [method : {"POST"}, user : {"staff"}, is_public : BOOLEAN,
     scheduled_start : ScheduledStarts]
    \cup [method : Methods, user : {"anonymous"}, is_public : {TRUE}, scheduled_start : {1}]
    \cup [method : {"GET"}, user : {"staff"}, is_public : {TRUE}, scheduled_start : {1}]

LiveStreamCreateView_saves(method, user) == is_staff(user) /\ method = "POST"

LiveStreamCreateView_response(method, user) ==
    IF ~is_staff(user) THEN HttpResponse(302)
    ELSE IF method = "POST" THEN HttpResponse(302)
    ELSE HttpResponse(200)

\* the table after the INSERT of row under the new primary key pk
insert(table, pk, row) ==
    [id \in DOMAIN table \cup {pk} |-> IF id = pk THEN row ELSE table[id]]

\* the table after the DELETE of the row pk
delete(table, pk) == [id \in DOMAIN table \ {pk} |-> table[id]]

\* one request to the add page; the table holds at most the ids of StreamIds
LiveStreamCreateView ==
    \E request \in CreateRequests, pk \in StreamIds \ DOMAIN streams :
        /\ http_request' = [view |-> "LiveStreamCreateView", method |-> request.method,
                            user |-> request.user, is_public |-> request.is_public,
                            scheduled_start |-> request.scheduled_start]
        /\ http_response' = LiveStreamCreateView_response(request.method, request.user)
        /\ streams' = IF LiveStreamCreateView_saves(request.method, request.user)
                      THEN insert(streams, pk, NewStream(request.is_public,
                                                         request.scheduled_start))
                      ELSE streams
        /\ UNCHANGED <<broadcasts, now, inflight, resolver_vars>>

\* the requests to the delete page: the POST by staff, and one request for each way of
\* deleting nothing (not staff, a GET, no such stream)
DeleteRequests ==
    [method : Methods, user : Users, stream_id : StreamIds]
    \cup [method : {"POST"}, user : {"staff"}, stream_id : RequestedIds \ StreamIds]

LiveStreamDeleteView_deletes(method, user, pk) ==
    /\ is_staff(user)
    /\ pk \in DOMAIN streams
    /\ method = "POST"

LiveStreamDeleteView_response(method, user, pk) ==
    IF ~is_staff(user) THEN HttpResponse(302)
    ELSE IF pk \notin DOMAIN streams THEN HttpResponse(404)
    ELSE IF method = "POST" THEN HttpResponse(302)
    ELSE HttpResponse(200)

\* one request to the delete page of a stream; its broadcasts go with it (on_delete=CASCADE)
LiveStreamDeleteView ==
    \E request \in DeleteRequests :
        /\ http_request' = [view |-> "LiveStreamDeleteView", method |-> request.method,
                            user |-> request.user, stream_id |-> request.stream_id]
        /\ http_response' = LiveStreamDeleteView_response(request.method, request.user,
                                                          request.stream_id)
        /\ IF LiveStreamDeleteView_deletes(request.method, request.user, request.stream_id)
           THEN /\ streams' = delete(streams, request.stream_id)
                /\ broadcasts' = {b \in broadcasts : b.stream # request.stream_id}
           ELSE UNCHANGED <<streams, broadcasts>>
        /\ UNCHANGED <<now, inflight, resolver_vars>>

NextAdmin ==
    \/ LiveStreamCreateView
    \/ LiveStreamUpdateView
    \/ LiveStreamDeleteView
    \/ update_stream_status
    \/ Tick

SpecAdmin == InitStatus /\ [][NextAdmin]_vars

(***************************************************************************)
(* update_stream_status under concurrent requests: each call reads the     *)
(* row (LiveStream.objects.get), changes its copy and writes the whole     *)
(* row back (stream.save()); the calls of different requests interleave    *)
(* between the two.                                                        *)
(***************************************************************************)
\* the call of slot r begins: it is turned down, or it reads the row
update_stream_status_get(r) ==
    /\ inflight[r].pc = "idle"
    /\ \E request \in StatusRequests :
        inflight' = [inflight EXCEPT ![r] =
            IF update_stream_status_saves(request.method, request.stream_id, request.status)
            THEN [pc |-> "read", view |-> "update_stream_status", request |-> request,
                  stream |-> streams[request.stream_id]]
            ELSE [pc |-> "done", view |-> "update_stream_status", request |-> request,
                  response |-> update_stream_status_response(request.method,
                                   request.stream_id, request.status)]]
    /\ UNCHANGED <<database_vars, now, http_vars, resolver_vars>>

\* it stamps its copy by the status it read and saves every field of the copy
update_stream_status_put(r) ==
    /\ inflight[r].pc = "read"
    /\ streams' = [streams EXCEPT ![inflight[r].request.stream_id] =
                      update_stream_status_save(inflight[r].stream,
                                                inflight[r].request.status, now)]
    /\ inflight' = [inflight EXCEPT ![r] =
            [pc |-> "done", view |-> "update_stream_status", request |-> @.request,
             stream |-> @.stream, saved_at |-> now,
             response |-> update_stream_status_response(@.request.method,
                              @.request.stream_id, @.request.status)]]
    /\ UNCHANGED <<broadcasts, now, http_vars, resolver_vars>>

\* the stream is scheduled, or has gone live at time 0
InitRace ==
    /\ streams \in [StreamIds ->
            {NewStream(TRUE, scheduled_start) : scheduled_start \in ScheduledStarts}
            \cup {update_stream_status_save(NewStream(TRUE, scheduled_start), "live", 0) :
                    scheduled_start \in ScheduledStarts}]
    /\ broadcasts = {}
    /\ inflight = [r \in Slots |-> Idle]
    /\ now = 0
    /\ http_request = NoRequest
    /\ http_response = NoResponse
    /\ b_platform_type = "direct"
    /\ b_platform_url = <<>>
    /\ request_host = <<"e","x","a","m","p","l","e",".","c","o","m">>
    /\ pc = "idle"
    /\ caller = "none"
    /\ result = NotCalled

NextRace ==
    \/ \E r \in Slots : update_stream_status_get(r)
    \/ \E r \in Slots : update_stream_status_put(r)
    \/ Tick

SpecRace == InitRace /\ [][NextRace]_vars

(***************************************************************************)
(* The online TV page over every table of two streams, one render at a     *)
(* time.                                                                   *)
(***************************************************************************)
\* a row of the given status as update_stream_status leaves it, all at time 0
StreamWithStatus(status, is_public, scheduled_start) ==
    CASE status = "scheduled" -> NewStream(is_public, scheduled_start)
      [] status = "live" ->
            update_stream_status_save(NewStream(is_public, scheduled_start), "live", 0)
      [] status = "ended" ->
            update_stream_status_save(
                update_stream_status_save(NewStream(is_public, scheduled_start), "live", 0),
                "ended", 0)
      [] status = "cancelled" ->
            update_stream_status_save(NewStream(is_public, scheduled_start), "cancelled", 0)

StreamRows ==
    {StreamWithStatus(status, is_public, scheduled_start) :
        status \in STATUS_CHOICES, is_public \in BOOLEAN, scheduled_start \in ScheduledStarts}

\* the context of the page with the stream and broadcast it was built from; a render in
\* which the resolver raises is answered 500
OnlineTVView_response(stream, b, embed_url) ==
    [status_code |-> IF embed_url.kind = "raise" THEN 500 ELSE 200,
     data |-> [stream |-> stream, b |-> b, embed_url |-> embed_url]]

\* one render of the online TV page, open to every user
OnlineTVView ==
    \E host \in Hosts, user \in Users, stream \in OnlineTVView_stream :
        \E b \in OnlineTVView_b(stream) :
            /\ http_request' = [view |-> "OnlineTVView", method |-> "GET", user |-> user,
                                host |-> host]
            /\ http_response' = OnlineTVView_response(stream, b, OnlineTVView_embed_url(b, host))
            /\ UNCHANGED <<database_vars, now, inflight, resolver_vars>>

\* every table of two streams, with at most one broadcast stored
InitTV ==
    /\ streams \in [ViewedStreamIds -> StreamRows]
    /\ broadcasts \in {rows \in StreamBroadcastTables : Cardinality(rows) <= 1}
    /\ inflight = <<>>
    /\ now = 0
    /\ http_request = NoRequest
    /\ http_response = NoResponse
    /\ b_platform_type = "direct"
    /\ b_platform_url = <<>>
    /\ request_host = <<"e","x","a","m","p","l","e",".","c","o","m">>
    /\ pc = "idle"
    /\ caller = "none"
    /\ result = NotCalled

NextTV == OnlineTVView

SpecTV == InitTV /\ [][NextTV]_vars

\* a step in which update_stream_status accepted a POST (Tick is the step that moves the clock)
StatusUpdated ==
    /\ now' = now
    /\ http_request'.view = "update_stream_status"
    /\ http_request'.method = "POST"
    /\ http_request'.stream_id \in DOMAIN streams
    /\ http_request'.status \in STATUS_CHOICES

\* C18: a POST of a valid status for an existing stream sets the status; actual_start
\* becomes the current time exactly when the new status is live and the old one was not,
\* actual_end becomes the current time exactly when the new status is ended and the old
\* one was live, and in every other transition both timestamps keep their values.
C18_TimestampsFollowTransition ==
    [][StatusUpdated =>
         /\ streams'[http_request'.stream_id].status = http_request'.status
         /\ streams'[http_request'.stream_id].actual_start =
                IF http_request'.status = "live" /\ ~is_live(streams[http_request'.stream_id])
                THEN At(now) ELSE streams[http_request'.stream_id].actual_start
         /\ streams'[http_request'.stream_id].actual_end =
                IF http_request'.status = "ended" /\ is_live(streams[http_request'.stream_id])
                THEN At(now) ELSE streams[http_request'.stream_id].actual_end
         /\ \A other \in DOMAIN streams \ {http_request'.stream_id} :
                streams'[other] = streams[other]]_vars

\* a stream started at 0, re-posted live and ended at 1, the end accepted with 200
C18_Witness ==
    /\ http_request.view = "update_stream_status"
    /\ http_request.status = "ended" /\ http_request.stream_id = 1
    /\ http_response.status_code = 200
    /\ streams[1].status = "ended"
    /\ streams[1].actual_start = At(0)
    /\ streams[1].actual_end = At(1)
    /\ now = 1

\* C19: after any sequence of update_stream_status calls a stream with both timestamps
\* has actual_end >= actual_start, so its duration is not negative.
C19_DurationNeverNegative ==
    \A id \in DOMAIN streams :
        duration(streams[id]) # Null => duration(streams[id])[1] >= 0

\* C20: after any sequence of update_stream_status calls and edits through
\* LiveStreamUpdateView, a stream whose status is live has a non-null actual_start.
C20_LiveHasActualStart ==
    \A id \in DOMAIN streams : is_live(streams[id]) => streams[id].actual_start # Null

\* a render that has returned or raised
Rendered(r, view) == inflight[r].pc = "done" /\ inflight[r].view = view

\* resolve called alone with the broadcast and the host of the render of slot r
ResolvedAlone(r) ==
    OnlineTVView_build_embed_url(inflight[r].b[1].link.platform_type,
                                 strip(inflight[r].b[1].link.platform_url, Whitespace),
                                 inflight[r].host)

C16_DetailViewAnnotatesEveryBroadcast ==
    \A r \in Slots :
        Rendered(r, "detail")
        => /\ inflight[r].response.kind = "return"
           /\ Len(inflight[r].response.value) =
                  Cardinality(streambroadcast_set(inflight[r].object))
           /\ \A i \in DOMAIN inflight[r].response.value :
                LiveStreamListView_build_embed_url(
                    inflight[r].broadcasts[i].link.platform_type,
                    strip(inflight[r].broadcasts[i].link.platform_url, Whitespace),
                    inflight[r].host)
                = Return(inflight[r].response.value[i].embed_url)

\* a step in which a view of the livestream app handled a request of a user who is not staff
HandledForNonStaff == now' = now /\ ~is_staff(http_request'.user)

\* C21: create, update, delete and update_stream_status take effect only for a staff
\* user; a request of an anonymous or non-staff user leaves every stream unchanged.
C21_OnlyStaffChangesStreams ==
    [][HandledForNonStaff => streams' = streams]_vars

\* a step in which update_stream_status answered a request
StatusAnswered == now' = now /\ http_request'.view = "update_stream_status"

\* C23: update_stream_status leaves every stream unchanged whenever it returns an error;
\* a request that is not a POST gets 405, a POST for a stream id that does not exist gets
\* 404, and a POST for a stream whose status is missing or no choice gets 400.
C23_ErrorsLeaveStreamsUnchanged ==
    [][StatusAnswered =>
         /\ http_response'.status_code \in {400, 404, 405} => streams' = streams
         /\ http_request'.method # "POST" => http_response'.status_code = 405
         /\ http_request'.method = "POST" /\ http_request'.stream_id \notin DOMAIN streams
            => http_response'.status_code = 404
         /\ /\ http_request'.method = "POST"
            /\ http_request'.stream_id \in DOMAIN streams
            /\ http_request'.status \notin STATUS_CHOICES
            => http_response'.status_code = 400]_vars

\* a live stream after a POST whose status is no choice: answered 400, still live
C23_Witness ==
    /\ http_request.view = "update_stream_status"
    /\ http_request.method = "POST" /\ http_request.stream_id = 1
    /\ http_request.status = "paused"
    /\ http_response = JsonResponse(400, [error |-> "Invalid status"])
    /\ streams[1].status = "live" /\ streams[1].actual_start = At(0)
    /\ now = 0

\* the sentence as written: 400 for every POST whose status is missing or no choice
C23_ErrorsAsStated ==
    [][StatusAnswered =>
         /\ http_response'.status_code \in {400, 404, 405} => streams' = streams
         /\ http_request'.method # "POST" => http_response'.status_code = 405
         /\ http_request'.method = "POST" /\ http_request'.stream_id \notin DOMAIN streams
            => http_response'.status_code = 404
         /\ http_request'.method = "POST" /\ http_request'.status \notin STATUS_CHOICES
            => http_response'.status_code = 400]_vars

\* the call of slot r has saved the row
Saved(r) == inflight[r].pc = "done" /\ inflight[r].response.status_code = 200

\* the row after the call of slot first and then the call of slot second, from the row s0
SerialOutcome(s0, first, second) ==
    update_stream_status_save(
        update_stream_status_save(s0, inflight[first].request.status, inflight[first].saved_at),
        inflight[second].request.status, inflight[second].saved_at)

\* the call of slot r wrote the current time into the timestamp field
Stamped(r, field) ==
    update_stream_status_save(inflight[r].stream, inflight[r].request.status,
                              inflight[r].saved_at)[field] # inflight[r].stream[field]

\* C22: two concurrent update_stream_status requests for the same stream leave it as one
\* of the two serial orders of the same requests would, and no timestamp written by one
\* of them is lost to the other.
C22_ConcurrentUpdatesSerializable ==
    /\ Saved("r1") /\ Saved("r2")
    /\ inflight["r1"].request.stream_id = inflight["r2"].request.stream_id
    => /\ \E s0 \in {inflight["r1"].stream, inflight["r2"].stream} :
            streams[inflight["r1"].request.stream_id]
                \in {SerialOutcome(s0, "r1", "r2"), SerialOutcome(s0, "r2", "r1")}
       /\ \A r \in Slots, field \in {"actual_start", "actual_end"} :
            Stamped(r, field) => streams[inflight[r].request.stream_id][field] # Null

\* the online TV page has been rendered; selected is the stream it picked, Null for None
OnlineTVRendered == http_request.view = "OnlineTVView"

selected == http_response.data.stream

\* C24: whenever at least one public stream is live, the stream OnlineTVView selects is a
\* public live stream, one with the latest scheduled_start among them, whatever other
\* public streams exist.
C24_LivePublicStreamSelected ==
    /\ OnlineTVRendered
    /\ \E pk \in DOMAIN streams : streams[pk].is_public /\ is_live(streams[pk])
    => /\ selected # Null
       /\ streams[selected[1]].is_public
       /\ is_live(streams[selected[1]])
       /\ \A pk \in DOMAIN streams :
            streams[pk].is_public /\ is_live(streams[pk])
            => streams[selected[1]].scheduled_start >= streams[pk].scheduled_start

\* the live public stream 1 is picked over the public stream 2 scheduled later
C24_Witness ==
    /\ OnlineTVRendered
    /\ streams[1].is_public /\ is_live(streams[1]) /\ streams[1].scheduled_start = 1
    /\ streams[2].is_public /\ streams[2].status = "scheduled"
    /\ streams[2].scheduled_start = 2
    /\ selected = At(1)

\* C25: when no public stream is live, OnlineTVView selects a public stream with status
\* scheduled whenever one exists, and never an ended or cancelled stream in its place.
C25_ScheduledBeforeEndedOrCancelled ==
    /\ OnlineTVRendered
    /\ ~ \E pk \in DOMAIN streams : streams[pk].is_public /\ is_live(streams[pk])
    /\ \E pk \in DOMAIN streams : streams[pk].is_public /\ streams[pk].status = "scheduled"
    => /\ selected # Null
       /\ streams[selected[1]].is_public
       /\ streams[selected[1]].status = "scheduled"

====
